---- MODULE Spec2Model ----
(***************************************************************************)
(* Council meeting minutes pipeline: API-key probing and fetch             *)
(* (scrape_council_meetings.py), single-meeting extraction                 *)
(* (extract_meeting_text.py) and the parallel orchestrator                 *)
(* (orchestrate_extraction.py).                                            *)
(*                                                                         *)
(* Python values are represented as follows.  A str that the code takes    *)
(* apart (URLs, hrefs) is a sequence of tokens, "/" being a token of its   *)
(* own; None and the empty str/list/dict are the empty sequence << >>      *)
(* wherever the code only tests truthiness.  HTTP outcomes are strings:    *)
(* a status code ("200", "404", ...) or the exception raised by            *)
(* requests.get ("timeout", "error").  A dict is a record; an absent key   *)
(* is a field outside DOMAIN.                                              *)
(***************************************************************************)
EXTENDS Integers, Sequences, FiniteSets, TLC

\* ---------------------------------------------------------------- bounds
MaxMeetings == 2
MaxPages == 1
MaxFilterLen == 2

None == << >>

\* ------------------------------------------------------ generic helpers
Range(s) == {s[i] : i \in 1..Len(s)}

SeqsUpTo(S, n) == UNION {[1..k -> S] : k \in 0..n}

RECURSIVE LastIndexOf(_, _, _)
\* str.rfind: index of the last occurrence of tok in s[1..i], 0 if none
LastIndexOf(s, tok, i) ==
    IF i = 0 THEN 0
    ELSE IF s[i] = tok THEN i
    ELSE LastIndexOf(s, tok, i - 1)

\* ==================================================================
\* scrape_council_meetings.py
\* ==================================================================
API_KEY == "19B5..86CE"

SITE_ORIGIN == <<"https:", "/", "/", "council.vancouver.ca">>

API_KEY_HEADERS ==
    << <<"X-API-Key", API_KEY>>,
       <<"Api-Key", API_KEY>>,
       <<"API-Key", API_KEY>>,
       <<"X-API-KEY", API_KEY>>,
       <<"Authorization", "Bearer", API_KEY>>,
       <<"Authorization", API_KEY>>,
       <<"apikey", API_KEY>> >>

\* The request sent for header candidate h / for the query-parameter probe.
HeaderProbe(h) == [params |-> <<"type=previous">>, headers |-> h]
QueryProbe == [params |-> <<"type=previous", "apiKey">>, headers |-> None]

\* Outcomes of one probe request.
ProbeStatuses == {"200", "401", "error"}

RECURSIVE ProbeHeadersNoStop(_, _, _)
\* Variant: the loop notes a working candidate and goes on probing.
ProbeHeadersNoStop(i, resp, sent) ==
    IF i > Len(API_KEY_HEADERS)
    THEN [found |-> FALSE, headers |-> None, requests |-> sent]
    ELSE LET now == Append(sent, HeaderProbe(API_KEY_HEADERS[i]))
             rest == ProbeHeadersNoStop(i + 1, resp, now)
         IN IF resp[i] = "200"
            THEN [found |-> TRUE,
                  headers |-> IF rest.found THEN rest.headers ELSE API_KEY_HEADERS[i],
                  requests |-> rest.requests]
            ELSE rest

RECURSIVE ProbeHeaders(_, _, _)
\* The for-loop over API_KEY_HEADERS from candidate i on, `sent` being the
\* requests sent so far; resp[k] is the outcome of the k-th request if sent.
ProbeHeaders(i, resp, sent) ==
    IF i > Len(API_KEY_HEADERS)
    THEN [found |-> FALSE, headers |-> None, requests |-> sent]
    ELSE LET now == Append(sent, HeaderProbe(API_KEY_HEADERS[i]))
         IN IF resp[i] = "200"
            THEN [found |-> TRUE, headers |-> API_KEY_HEADERS[i], requests |-> now]
            ELSE ProbeHeaders(i + 1, resp, now)

\* test_api_key_format(): the working headers, or None both when the
\* query-parameter probe worked and when nothing worked.  `requests` is the
\* log of the requests sent, `worked` whether any probe returned 200 (the
\* code does not return it).
test_api_key_format(resp) ==
    LET h == ProbeHeaders(1, resp, << >>)
    IN IF h.found
       THEN [headers |-> h.headers, requests |-> h.requests, worked |-> TRUE]
       ELSE [headers |-> None,
             requests |-> Append(h.requests, QueryProbe),
             worked |-> resp[Len(API_KEY_HEADERS) + 1] = "200"]

\* Variant: the id is not taken from the position.
TransformSameId(idx, raw) ==
    [id |-> 0,
     meetingType |-> raw.eventTitle,
     status |-> raw.locationStatus,
     eventDate |-> raw.eventDateStart,
     meetingUrl |-> IF raw.relatedURL # << >>
                    THEN SITE_ORIGIN \o raw.relatedURL
                    ELSE raw.relatedURL]

\* One raw API record -> MeetingRecord with id = idx (enumerate is 0-based).
Transform(idx, raw) ==
    [id |-> idx,
     meetingType |-> raw.eventTitle,
     status |-> raw.locationStatus,
     eventDate |-> raw.eventDateStart,
     meetingUrl |-> IF raw.relatedURL # << >>
                    THEN SITE_ORIGIN \o raw.relatedURL
                    ELSE raw.relatedURL]

\* The list found in the decoded payload: bare list, or under one of the
\* known keys; None otherwise.
RawMeetings(payload) ==
    IF payload.shape \in {"list", "data", "items", "results", "meetings"}
    THEN payload.records
    ELSE None

\* fetch_meetings(): api = [status, payload]; None (<< >>) on any failure.
\* payload.shape "invalid" is a body response.json() raises on.
fetch_meetings(api) ==
    IF api.status = "200" /\ api.payload.shape # "invalid"
    THEN LET raw_meetings == RawMeetings(api.payload)
         IN IF raw_meetings # << >>
            THEN [idx \in 1..Len(raw_meetings) |-> Transform(idx - 1, raw_meetings[idx])]
            ELSE None
    ELSE None

\* ==================================================================
\* orchestrate_extraction.py: filter_meetings_by_date
\* ==================================================================
DaysInMonth(y, m) ==
    IF m = 2 THEN (IF y % 4 = 0 THEN 29 ELSE 28)
    ELSE IF m \in {4, 6, 9, 11} THEN 30 ELSE 31

\* A calendar date <<y, m, d>> that datetime accepts.
ValidDate(d) ==
    /\ d[2] \in 1..12
    /\ d[3] \in 1..DaysInMonth(d[1], d[2])

\* datetime.fromisoformat(s.replace('Z', '+00:00')) followed by .date():
\* raises (ok = FALSE) unless s is ISO text with a valid calendar date; the
\* date is the one written in the text, whatever the time and offset.
fromisoformat(s) ==
    IF s.kind = "iso" /\ ValidDate(s.date)
    THEN [ok |-> TRUE, date |-> s.date]
    ELSE [ok |-> FALSE, date |-> <<0, 0, 0>>]

\* date.__lt__
DateLT(a, b) ==
    \/ a[1] < b[1]
    \/ a[1] = b[1] /\ a[2] < b[2]
    \/ a[1] = b[1] /\ a[2] = b[2] /\ a[3] < b[3]

\* Variant: the bounds compare with <= and >=, excluding the bound itself.
KeepMeetingExclusive(meeting, start_date, end_date) ==
    LET event_date_str == meeting.eventDate
    IN IF event_date_str.kind = "empty" THEN FALSE
       ELSE LET event_date == fromisoformat(event_date_str)
            IN IF ~event_date.ok THEN FALSE
               ELSE IF start_date # None /\ ~DateLT(start_date, event_date.date) THEN FALSE
               ELSE IF end_date # None /\ ~DateLT(event_date.date, end_date) THEN FALSE
               ELSE TRUE

\* The loop body: does `meeting` reach filtered.append?
KeepMeeting(meeting, start_date, end_date) ==
    LET event_date_str == meeting.eventDate
    IN IF event_date_str.kind = "empty" THEN FALSE
       ELSE LET event_date == fromisoformat(event_date_str)
            IN IF ~event_date.ok THEN FALSE
               ELSE IF start_date # None /\ DateLT(event_date.date, start_date) THEN FALSE
               ELSE IF end_date # None /\ DateLT(end_date, event_date.date) THEN FALSE
               ELSE TRUE

filter_meetings_by_date(meetings, start_date, end_date) ==
    IF start_date = None /\ end_date = None
    THEN meetings
    ELSE SelectSeq(meetings, LAMBDA m : KeepMeeting(m, start_date, end_date))

\* ==================================================================
\* extract_meeting_text.py
\* ==================================================================
\* Variant: `if not meeting_id`, which also rejects id 0.
HasIdTruthy(meeting) == "id" \in DOMAIN meeting /\ meeting.id # 0

\* meeting.get("id") is None: the key is absent (or null).
HasId(meeting) == "id" \in DOMAIN meeting

\* f"Meeting {meeting_id}: {text}", with the variable part as `detail`.
Msg(meeting_id, text, detail) ==
    [meeting |-> <<ToString(meeting_id)>>, text |-> text, detail |-> detail]

\* os.path.join(output_dir, f"{meeting_id}.txt")
TextPath(output_dir, meeting_id) == <<output_dir, "/", ToString(meeting_id), ".txt">>

\* One side effect of an invocation: a network request or a file operation.
Ev(op, arg) == [op |-> op, arg |-> arg]

\* The value extract_meeting_text returns, with the side effects it had.
Ret(success, message, text_filename, events) ==
    [success |-> success, message |-> message,
     text_filename |-> text_filename, events |-> events, raised |-> FALSE]

\* First tokens of strings for which str.startswith('http') is true.
HttpTokens == {"http:", "https:", "httpdocs"}

\* Step 3: the absolute PDF URL for the href of the minutes link.
PdfUrl(meeting_url, minutes_link) ==
    IF minutes_link[1] \in HttpTokens
    THEN minutes_link
    ELSE IF minutes_link[1] = "/"
    THEN SITE_ORIGIN \o minutes_link
    ELSE LET cut == LastIndexOf(meeting_url, "/", Len(meeting_url))
             base_url == IF cut = 0 THEN meeting_url
                         ELSE SubSeq(meeting_url, 1, cut - 1)
         IN base_url \o <<"/">> \o minutes_link

\* "\n\n".join(extracted_text)
JoinPages(extracted_text) ==
    [i \in 1..(2 * Len(extracted_text) - 1) |->
        IF i % 2 = 1 THEN extracted_text[(i + 1) \div 2] ELSE "\n\n"]

\* Variant: the output file is opened before the test for extracted text.
TryBodyWritesFirst(meeting_id, output_dir, env) ==
    LET extracted_text == SelectSeq(env.pages, LAMBDA t : t # "")
        text_filename == TextPath(output_dir, meeting_id)
        opened == <<Ev("pdf.open", << >>)>>
    IN IF env.pdfopen = "raise"
       THEN [raised |-> TRUE, cause |-> "pdf.open", events |-> opened,
             ret |-> Ret(FALSE, None, None, << >>)]
       ELSE IF env.write = "open_raise"
       THEN [raised |-> TRUE, cause |-> "txt.open",
             events |-> opened \o <<Ev("makedirs", <<output_dir>>)>>,
             ret |-> Ret(FALSE, None, None, << >>)]
       ELSE IF extracted_text = << >>
       THEN [raised |-> FALSE, cause |-> "",
             events |-> opened \o <<Ev("makedirs", <<output_dir>>),
                                    Ev("txt.open", text_filename)>>,
             ret |-> Ret(FALSE, Msg(meeting_id, "No text extracted from PDF", ""),
                         None, << >>)]
       ELSE IF env.write = "write_raise"
       THEN [raised |-> TRUE, cause |-> "txt.write",
             events |-> opened \o <<Ev("makedirs", <<output_dir>>),
                                    Ev("txt.open", text_filename)>>,
             ret |-> Ret(FALSE, None, None, << >>)]
       ELSE [raised |-> FALSE, cause |-> "",
             events |-> opened \o <<Ev("makedirs", <<output_dir>>),
                                    Ev("txt.open", text_filename),
                                    Ev("txt.write", JoinPages(extracted_text))>>,
             ret |-> Ret(TRUE,
                         Msg(meeting_id, "Successfully extracted pages",
                             ToString(Len(extracted_text))),
                         text_filename, << >>)]

\* The body of the inner try (lines 115-134): what it leaves pending when
\* control reaches the finally clause, a return value or an exception.
\* env.pdfopen, env.write say whether pdfplumber and the output write raise.
TryBody(meeting_id, output_dir, env) ==
    LET extracted_text == SelectSeq(env.pages, LAMBDA t : t # "")
        text_filename == TextPath(output_dir, meeting_id)
        opened == <<Ev("pdf.open", << >>)>>
    IN IF env.pdfopen = "raise"
       THEN [raised |-> TRUE, cause |-> "pdf.open", events |-> opened,
             ret |-> Ret(FALSE, None, None, << >>)]
       ELSE IF extracted_text = << >>
       THEN [raised |-> FALSE, cause |-> "", events |-> opened,
             ret |-> Ret(FALSE, Msg(meeting_id, "No text extracted from PDF", ""),
                         None, << >>)]
       ELSE IF env.write = "open_raise"
       THEN [raised |-> TRUE, cause |-> "txt.open",
             events |-> opened \o <<Ev("makedirs", <<output_dir>>)>>,
             ret |-> Ret(FALSE, None, None, << >>)]
       ELSE IF env.write = "write_raise"
       THEN [raised |-> TRUE, cause |-> "txt.write",
             events |-> opened \o <<Ev("makedirs", <<output_dir>>),
                                    Ev("txt.open", text_filename)>>,
             ret |-> Ret(FALSE, None, None, << >>)]
       ELSE [raised |-> FALSE, cause |-> "",
             events |-> opened \o <<Ev("makedirs", <<output_dir>>),
                                    Ev("txt.open", text_filename),
                                    Ev("txt.write", JoinPages(extracted_text))>>,
             ret |-> Ret(TRUE,
                         Msg(meeting_id, "Successfully extracted pages",
                             ToString(Len(extracted_text))),
                         text_filename, << >>)]

\* Variant: no `except Exception`; what pdfplumber or the file system raises
\* leaves the function.
ExtractFromPdfUncaught(meeting_id, output_dir, env, ev) ==
    LET created == ev \o <<Ev("tmp.create", << >>)>>
        Raise(events) == [Ret(FALSE, None, None, events) EXCEPT !.raised = TRUE]
    IN IF env.tmpwrite = "raise"
       THEN Raise(created)
       ELSE LET body == TryBody(meeting_id, output_dir, env)
                done == created \o <<Ev("tmp.write", << >>)>> \o body.events
            IN IF env.unlink = "raise"
               THEN Raise(done)
               ELSE IF body.raised
               THEN Raise(done \o <<Ev("tmp.unlink", << >>)>>)
               ELSE Ret(body.ret.success, body.ret.message, body.ret.text_filename,
                        done \o <<Ev("tmp.unlink", << >>)>>)

\* Lines 109-146: temporary file, inner try/finally, and the outer
\* `except Exception` that turns whatever was raised into a failure tuple.
ExtractFromPdf(meeting_id, output_dir, env, ev) ==
    LET created == ev \o <<Ev("tmp.create", << >>)>>
    IN IF env.tmpwrite = "raise"
       THEN Ret(FALSE, Msg(meeting_id, "Unexpected error", "tmp.write"), None, created)
       ELSE LET body == TryBody(meeting_id, output_dir, env)
                done == created \o <<Ev("tmp.write", << >>)>> \o body.events
            IN IF env.unlink = "raise"
               THEN Ret(FALSE, Msg(meeting_id, "Unexpected error", "tmp.unlink"),
                        None, done)
               ELSE IF body.raised
               THEN Ret(FALSE, Msg(meeting_id, "Unexpected error", body.cause),
                        None, done \o <<Ev("tmp.unlink", << >>)>>)
               ELSE Ret(body.ret.success, body.ret.message, body.ret.text_filename,
                        done \o <<Ev("tmp.unlink", << >>)>>)

\* extract_meeting_text(meeting, output_dir); env gives what the network,
\* the page, the PDF and the file system answer during this invocation.
extract_meeting_text(meeting, output_dir, env) ==
    IF ~HasId(meeting)
    THEN Ret(FALSE, [meeting |-> << >>, text |-> "Missing meeting ID", detail |-> ""],
             None, << >>)
    ELSE
    LET meeting_id == meeting.id
        meeting_url == meeting.meetingUrl
        got_page == <<Ev("GET", meeting_url)>>
    IN IF meeting_url = << >>
       THEN Ret(FALSE, Msg(meeting_id, "Empty or missing meetingUrl", ""), None, << >>)
       ELSE IF env.page = "timeout"
       THEN Ret(FALSE, Msg(meeting_id, "Request timeout", ""), None, got_page)
       ELSE IF env.page = "error"
       THEN Ret(FALSE, Msg(meeting_id, "Request error", ""), None, got_page)
       ELSE IF env.page = "404"
       THEN Ret(FALSE, Msg(meeting_id, "Page not found (404)", ""), None, got_page)
       ELSE IF env.page # "200"
       THEN Ret(FALSE, Msg(meeting_id, "HTTP", env.page), None, got_page)
       ELSE IF env.href = << >>
       THEN Ret(FALSE, Msg(meeting_id, "No 'read the minutes' link found", ""),
                None, got_page)
       ELSE LET pdf_url == PdfUrl(meeting_url, env.href)
                got_pdf == got_page \o <<Ev("GET", pdf_url)>>
            IN IF env.pdf = "timeout"
               THEN Ret(FALSE, Msg(meeting_id, "Request timeout", ""), None, got_pdf)
               ELSE IF env.pdf = "error"
               THEN Ret(FALSE, Msg(meeting_id, "Request error", ""), None, got_pdf)
               ELSE IF env.pdf # "200"
               THEN Ret(FALSE, Msg(meeting_id, "PDF download failed (HTTP)", env.pdf),
                        None, got_pdf)
               ELSE ExtractFromPdf(meeting_id, output_dir, env, got_pdf)

\* ---- what one invocation can meet -------------------------------
PageStatuses == {"200", "404", "500", "timeout", "error"}
PdfStatuses == {"200", "404", "timeout", "error"}
PageTexts == {"", "minutes"}
Hrefs == { <<"https:", "/", "/", "council.vancouver.ca", "/", "min.pdf">>,
           <<"HTTPS:", "/", "/", "council.vancouver.ca", "/", "min.pdf">>,
           <<"/", "ctyclerk", "/", "min.pdf">>,
           <<"min.pdf">> }

\* Relative hrefs whose first segment begins with "http": the code requests
\* them as they are, and requests.get raises MissingSchema (a RequestException).
SchemelessHrefs == { <<"httpdocs", "/", "min.pdf">> }
Pdfs == SeqsUpTo(PageTexts, MaxPages)

\* The happy path; every other environment departs from it at one step and
\* leaves the steps the code then never reaches at these values.
EnvOk == [page |-> "200", href |-> <<"min.pdf">>, pdf |-> "200", tmpwrite |-> "ok",
          pdfopen |-> "ok", pages |-> <<"minutes">>, write |-> "ok", unlink |-> "ok"]

Envs ==
    {[EnvOk EXCEPT !.page = s] : s \in PageStatuses \ {"200"}}
    \cup {[EnvOk EXCEPT !.href = << >>]}
    \cup {[EnvOk EXCEPT !.href = h, !.pdf = s] : h \in Hrefs, s \in PdfStatuses \ {"200"}}
    \cup {[EnvOk EXCEPT !.href = h, !.pdf = "error"] : h \in SchemelessHrefs}
    \cup {[EnvOk EXCEPT !.href = h, !.tmpwrite = "raise"] : h \in Hrefs}
    \cup {[EnvOk EXCEPT !.href = h, !.pdfopen = "raise", !.unlink = u] :
             h \in Hrefs, u \in {"ok", "raise"}}
    \cup {[EnvOk EXCEPT !.href = h, !.pages = p, !.write = w, !.unlink = u] :
             h \in Hrefs, p \in Pdfs, w \in {"ok", "open_raise", "write_raise"},
             u \in {"ok", "raise"}}

\* ==================================================================
\* orchestrate_extraction.py: orchestrate_extraction
\* ==================================================================
NumWorkers == 2

\* Default arguments of orchestrate_extraction.
output_dir == "previous_meetings_extracted"

\* process_meeting_wrapper((meeting, output_dir))
process_meeting_wrapper(args, env) ==
    LET r == extract_meeting_text(args[1], args[2], env)
    IN [meeting |-> args[1], success |-> r.success,
        message |-> r.message, text_filename |-> r.text_filename]

\* Step 5, one result: meeting.copy() with the added key.
SuccessCopy(result) == result.meeting @@ [text_filename |-> result.text_filename]
FailureCopy(result) == result.meeting @@ [error_message |-> result.message]

\* Step 5: the two collections, in the order of `results`.
SuccessfulMeetings(results) ==
    LET ok == SelectSeq(results, LAMBDA r : r.success)
    IN [i \in 1..Len(ok) |-> SuccessCopy(ok[i])]

\* Variant: the else branch is taken for every result.
FailedMeetingsAll(results) ==
    [i \in 1..Len(results) |-> FailureCopy(results[i])]

FailedMeetings(results) ==
    LET ko == SelectSeq(results, LAMBDA r : ~r.success)
    IN [i \in 1..Len(ko) |-> FailureCopy(ko[i])]

\* A dataset file: absent, left by an earlier run, or written by this one.
Absent == [exists |-> FALSE, run |-> "", data |-> << >>]
Earlier == [exists |-> TRUE, run |-> "earlier", data |-> << >>]
Written(data) == [exists |-> TRUE, run |-> "this", data |-> data]

\* ---- inputs of a run ---------------------------------------------
Dec31 == <<2025, 12, 31>>
Jan01 == <<2026, 1, 1>>
Jan02 == <<2026, 1, 2>>

IsoDate(d) == [kind |-> "iso", date |-> d]
EmptyDate == [kind |-> "empty", date |-> <<0, 0, 0>>]

RawRecord(date, url) ==
    [eventTitle |-> "Council", locationStatus |-> "Held",
     eventDateStart |-> date, relatedURL |-> url]

\* Records the API returns to a run.
RawRecords ==
    { RawRecord(IsoDate(Jan01), <<"/", "20260101", "/", "regu.htm">>),
      RawRecord(IsoDate(Dec31), << >>) }

ApiResponses ==
    {[status |-> "200", payload |-> [shape |-> sh, records |-> recs]] :
        sh \in {"list", "data", "other"}, recs \in SeqsUpTo(RawRecords, MaxMeetings)}
    \cup {[status |-> "200", payload |-> [shape |-> "invalid", records |-> << >>]],
          [status |-> "500", payload |-> [shape |-> "invalid", records |-> << >>]]}

\* Probe outcomes a run meets: first header works, only the query parameter
\* works, nothing works.
AllProbes(s) == [i \in 1..(Len(API_KEY_HEADERS) + 1) |-> s]
RunProbes ==
    { AllProbes("200"),
      [AllProbes("401") EXCEPT ![Len(API_KEY_HEADERS) + 1] = "200"],
      AllProbes("401") }

\* One environment per outcome of an extraction.
RunEnvs ==
    { EnvOk,
      [EnvOk EXCEPT !.page = "404"],
      [EnvOk EXCEPT !.page = "500"],
      [EnvOk EXCEPT !.page = "timeout"],
      [EnvOk EXCEPT !.page = "error"],
      [EnvOk EXCEPT !.href = << >>],
      [EnvOk EXCEPT !.pdf = "404"],
      [EnvOk EXCEPT !.pages = << >>],
      [EnvOk EXCEPT !.pdfopen = "raise"],
      [EnvOk EXCEPT !.write = "write_raise"],
      [EnvOk EXCEPT !.unlink = "raise"] }

DateArgs == {None, Jan01}

\* ---- state ---------------------------------------------------------
VARIABLES
    pc,                   \* where orchestrate_extraction is
    start_date, end_date, \* its date arguments
    probe,                \* what test_api_key_format did and returned
    fetch_log,            \* the calls of fetch_meetings: (headers, use_query_param)
    input_file,           \* input_json
    meetings,             \* the local `meetings`
    started,              \* tasks 1..started of args_list were handed to workers
    running,              \* tasks a worker is executing
    results,              \* the local `results`
    successful_meetings, failed_meetings,
    output_file,          \* output_json
    failed_file,          \* failed_json
    txt_files,            \* files <id>.txt under output_dir: path -> text
    tmp_left,             \* temporary PDF files left on disk
    writers,              \* which task opened which path for writing
    error,                \* the exception orchestrate_extraction ended with
    printed,              \* the last error message or heading it printed
    call, ret, called     \* a function applied on its own: arguments, value

vars == <<pc, start_date, end_date, probe, fetch_log, input_file, meetings,
          started, running, results, successful_meetings, failed_meetings,
          output_file, failed_file, txt_files, tmp_left, writers, error,
          printed, call, ret, called>>

poolVars == <<started, running, results, txt_files, tmp_left, writers>>
outVars == <<successful_meetings, failed_meetings, output_file, failed_file>>
fnVars == <<call, ret, called>>

NoProbe == [headers |-> None, requests |-> << >>, worked |-> FALSE]

InitRun ==
    /\ probe = NoProbe
    /\ fetch_log = << >>
    /\ input_file = Earlier
    /\ meetings = << >>
    /\ started = 0
    /\ running = {}
    /\ results = << >>
    /\ successful_meetings = << >>
    /\ failed_meetings = << >>
    /\ output_file = Earlier
    /\ failed_file = Earlier
    /\ txt_files = {}
    /\ tmp_left = 0
    /\ writers = {}
    /\ error = ""
    /\ printed = ""

Init ==
    /\ InitRun
    /\ pc = "probe"
    /\ start_date \in DateArgs
    /\ end_date \in DateArgs
    /\ call = << >> /\ ret = << >> /\ called = FALSE

\* Lines 117-123: probe, then the abort test on (working_headers, use_query_param).
TestApiKey ==
    /\ pc = "probe"
    /\ \E resp \in RunProbes :
         LET p == test_api_key_format(resp)
             working_headers == p.headers
             use_query_param == (working_headers = None)
         IN /\ probe' = p
            /\ IF working_headers = << >> /\ ~use_query_param
               THEN /\ pc' = "returned"
                    /\ printed' = "Could not find working API key format!"
               ELSE /\ pc' = "scrape"
                    /\ UNCHANGED printed
    /\ UNCHANGED <<start_date, end_date, fetch_log, input_file, meetings, error>>
    /\ UNCHANGED <<poolVars, outVars, fnVars>>

\* Lines 125-135 with scrape_all_meetings: fetch, save input_json, or abort.
Scrape ==
    /\ pc = "scrape"
    /\ \E api \in ApiResponses :
         LET fetched == fetch_meetings(api)
         IN /\ fetch_log' = Append(fetch_log,
                                   [headers |-> probe.headers,
                                    use_query_param |-> (probe.headers = None)])
            /\ IF fetched = << >>
               THEN /\ meetings' = << >>
                    /\ pc' = "returned"
                    /\ printed' = "Failed to scrape meetings"
                    /\ UNCHANGED input_file
               ELSE /\ meetings' = fetched
                    /\ input_file' = Written(fetched)
                    /\ pc' = "load"
                    /\ UNCHANGED printed
    /\ UNCHANGED <<start_date, end_date, probe, error>>
    /\ UNCHANGED <<poolVars, outVars, fnVars>>

\* Variant: the except clauses print and do not return.
LoadNoReturn ==
    /\ pc = "load"
    /\ \E found \in {"ok", "absent", "invalid"} :
         IF found = "ok"
         THEN /\ meetings' = input_file.data
              /\ pc' = "filter"
              /\ UNCHANGED printed
         ELSE /\ pc' = "filter"
              /\ printed' = (IF found = "absent" THEN "Error: File not found"
                             ELSE "Error: Invalid JSON")
              /\ UNCHANGED meetings
    /\ UNCHANGED <<start_date, end_date, probe, fetch_log, input_file, error>>
    /\ UNCHANGED <<poolVars, outVars, fnVars>>

\* Lines 140-152: reload input_json; the file may have been removed or
\* damaged since it was written.  json.load(json.dump(x)) = x for lists of
\* dicts of str and int.
Load ==
    /\ pc = "load"
    /\ \E found \in {"ok", "absent", "invalid"} :
         IF found = "ok"
         THEN /\ meetings' = input_file.data
              /\ pc' = "filter"
              /\ UNCHANGED printed
         ELSE /\ pc' = "returned"
              /\ printed' = (IF found = "absent" THEN "Error: File not found"
                             ELSE "Error: Invalid JSON")
              /\ UNCHANGED meetings
    /\ UNCHANGED <<start_date, end_date, probe, fetch_log, input_file, error>>
    /\ UNCHANGED <<poolVars, outVars, fnVars>>

\* Lines 154-185: date filter (when a bound is given), makedirs, args_list.
Filter ==
    /\ pc = "filter"
    /\ meetings' = IF start_date # None \/ end_date # None
                   THEN filter_meetings_by_date(meetings, start_date, end_date)
                   ELSE meetings
    /\ pc' = "pool"
    /\ UNCHANGED <<start_date, end_date, probe, fetch_log, input_file, error, printed>>
    /\ UNCHANGED <<poolVars, outVars, fnVars>>

\* The pool hands the next element of args_list to an idle worker.
Start ==
    /\ pc = "pool"
    /\ started < Len(meetings)
    /\ Cardinality(running) < NumWorkers
    /\ started' = started + 1
    /\ running' = running \cup {started + 1}
    /\ UNCHANGED <<pc, start_date, end_date, probe, fetch_log, input_file, meetings,
                   results, txt_files, tmp_left, writers, error, printed>>
    /\ UNCHANGED <<outVars, fnVars>>

Ops(events) == {events[i].op : i \in 1..Len(events)}

\* Variant: the output file is opened in append mode.
TxtAfterAppend(files, events) ==
    LET opens == {i \in 1..Len(events) : events[i].op = "txt.open"}
        writes == {i \in 1..Len(events) : events[i].op = "txt.write"}
        opened == {events[i].arg : i \in opens}
        old(p) == IF \E f \in files : f.path = p
                  THEN (CHOOSE f \in files : f.path = p).text ELSE << >>
        text(p) == IF writes = {} THEN old(p)
                   ELSE old(p) \o events[CHOOSE i \in writes : TRUE].arg
    IN {f \in files : f.path \notin opened}
       \cup {[path |-> p, text |-> text(p)] : p \in opened}

\* The text files after the file operations in `events`.
TxtAfter(files, events) ==
    LET opens == {i \in 1..Len(events) : events[i].op = "txt.open"}
        writes == {i \in 1..Len(events) : events[i].op = "txt.write"}
        opened == {events[i].arg : i \in opens}
        text(p) == IF writes = {} THEN << >>
                   ELSE events[CHOOSE i \in writes : TRUE].arg
    IN {f \in files : f.path \notin opened}
       \cup {[path |-> p, text |-> text(p)] : p \in opened}

\* Did the invocation leave its temporary file behind?
TmpLeft(events) == "tmp.create" \in Ops(events) /\ "tmp.unlink" \notin Ops(events)

\* Worker t runs process_meeting_wrapper (lines 16-34) and its result is the
\* next one the loop at lines 191-192 appends.  An exception leaving the
\* worker is re-raised by imap_unordered in orchestrate_extraction.
Finish(t) ==
    /\ pc = "pool"
    /\ t \in running
    /\ \E env \in RunEnvs :
         LET args == <<meetings[t], output_dir>>
             r == extract_meeting_text(args[1], args[2], env)
         IN /\ running' = running \ {t}
            /\ txt_files' = TxtAfter(txt_files, r.events)
            /\ tmp_left' = tmp_left + (IF TmpLeft(r.events) THEN 1 ELSE 0)
            /\ writers' = writers \cup
                   {[path |-> r.events[i].arg, task |-> t] :
                      i \in {j \in 1..Len(r.events) : r.events[j].op = "txt.open"}}
            /\ IF r.raised
               THEN /\ pc' = "raised"
                    /\ error' = "worker"
                    /\ UNCHANGED results
               ELSE /\ results' = Append(results, process_meeting_wrapper(args, env))
                    /\ UNCHANGED <<pc, error>>
    /\ UNCHANGED <<start_date, end_date, probe, fetch_log, input_file, meetings, started,
                   printed>>
    /\ UNCHANGED <<outVars, fnVars>>

\* Lines 207-227: the pool is drained; split the results.
Partition ==
    /\ pc = "pool"
    /\ Len(results) = Len(meetings)
    /\ successful_meetings' = SuccessfulMeetings(results)
    /\ failed_meetings' = FailedMeetings(results)
    /\ pc' = "save"
    /\ UNCHANGED <<start_date, end_date, probe, fetch_log, input_file, meetings, error,
                   printed, output_file, failed_file>>
    /\ UNCHANGED <<poolVars, fnVars>>

\* Variant: failed_json is written without the `if failed_meetings` test.
SaveAlways ==
    /\ pc = "save"
    /\ output_file' = Written(successful_meetings)
    /\ failed_file' = Written(failed_meetings)
    /\ pc' = "summary"
    /\ UNCHANGED <<start_date, end_date, probe, fetch_log, input_file, meetings, error,
                   printed, successful_meetings, failed_meetings>>
    /\ UNCHANGED <<poolVars, fnVars>>

\* Lines 229-243: write output_json, and failed_json if there are failures.
Save ==
    /\ pc = "save"
    /\ output_file' = Written(successful_meetings)
    /\ failed_file' = IF failed_meetings # << >>
                      THEN Written(failed_meetings) ELSE failed_file
    /\ pc' = "summary"
    /\ UNCHANGED <<start_date, end_date, probe, fetch_log, input_file, meetings, error,
                   printed, successful_meetings, failed_meetings>>
    /\ UNCHANGED <<poolVars, fnVars>>

\* Lines 245-256: the percentages divide by len(meetings).
Summary ==
    /\ pc = "summary"
    /\ printed' = "SUMMARY"
    /\ IF Len(meetings) = 0
       THEN pc' = "raised" /\ error' = "ZeroDivisionError"
       ELSE pc' = "done" /\ UNCHANGED error
    /\ UNCHANGED <<start_date, end_date, probe, fetch_log, input_file, meetings>>
    /\ UNCHANGED <<poolVars, outVars, fnVars>>

Next ==
    \/ TestApiKey
    \/ Scrape
    \/ Load
    \/ Filter
    \/ Start
    \/ \E t \in 1..(MaxMeetings + 1) : Finish(t)
    \/ Partition
    \/ Save
    \/ Summary

Spec == Init /\ [][Next]_vars

\* ==================================================================
\* The functions applied on their own
\* ==================================================================
\* No run of the orchestrator: its variables stay as constructed.
NoRun ==
    /\ InitRun
    /\ pc = "idle"
    /\ start_date = None
    /\ end_date = None

\* ---- test_api_key_format against every sequence of probe outcomes ----
InitProbe ==
    /\ NoRun
    /\ call \in [1..(Len(API_KEY_HEADERS) + 1) -> ProbeStatuses]
    /\ ret = NoProbe
    /\ called = FALSE

CallProbe ==
    /\ ~called
    /\ ret' = test_api_key_format(call)
    /\ called' = TRUE
    /\ UNCHANGED <<pc, start_date, end_date, probe, fetch_log, input_file, meetings,
                   error, printed, call>>
    /\ UNCHANGED <<poolVars, outVars>>

NextProbe == CallProbe

SpecProbe == InitProbe /\ [][NextProbe]_vars

\* ---- filter_meetings_by_date on lists of meetings ----------------------
Feb30 == <<2026, 2, 30>>

EventDates ==
    { EmptyDate,
      [kind |-> "text", date |-> <<0, 0, 0>>],
      IsoDate(Dec31), IsoDate(Jan01), IsoDate(Jan02), IsoDate(Feb30) }

FilterDates == {None, Dec31, Jan01, Jan02}

\* The dataset a fetch of records with these dates produces.
MeetingsDated(dates) ==
    [i \in 1..Len(dates) |-> Transform(i - 1, RawRecord(dates[i], << >>))]

InitFilter ==
    /\ NoRun
    /\ call \in {[meetings |-> MeetingsDated(ds), start_date |-> s, end_date |-> e] :
                    ds \in SeqsUpTo(EventDates, MaxFilterLen),
                    s \in FilterDates, e \in FilterDates}
    /\ ret = << >>
    /\ called = FALSE

CallFilter ==
    /\ ~called
    /\ ret' = filter_meetings_by_date(call.meetings, call.start_date, call.end_date)
    /\ called' = TRUE
    /\ UNCHANGED <<pc, start_date, end_date, probe, fetch_log, input_file, meetings,
                   error, printed, call>>
    /\ UNCHANGED <<poolVars, outVars>>

NextFilter == CallFilter

SpecFilter == InitFilter /\ [][NextFilter]_vars

\* ---- extract_meeting_text on one record --------------------------------
MeetingUrls == { << >>, SITE_ORIGIN \o <<"/", "20260115", "/", "phea.htm">> }

\* Records with id 0, id 1 and without id, with and without meetingUrl.
ExtractMeetings ==
    {[id |-> i, meetingType |-> "Council", status |-> "Held",
      eventDate |-> EmptyDate, meetingUrl |-> u] : i \in {0, 1}, u \in MeetingUrls}
    \cup {[meetingType |-> "Council", status |-> "Held",
           eventDate |-> EmptyDate, meetingUrl |-> u] : u \in MeetingUrls}

NoRet == [r |-> Ret(FALSE, None, None, << >>),
          successful_meetings |-> << >>, failed_meetings |-> << >>]

InitExtract ==
    /\ NoRun
    /\ call \in {[meeting |-> m, output_dir |-> output_dir, env |-> e] :
                    m \in ExtractMeetings, e \in Envs}
    /\ ret = NoRet
    /\ called = FALSE

\* extract_meeting_text through process_meeting_wrapper, and step 5 of the
\* orchestrator on that one result.
CallExtract ==
    /\ ~called
    /\ LET result == process_meeting_wrapper(<<call.meeting, call.output_dir>>, call.env)
       IN ret' = [r |-> extract_meeting_text(call.meeting, call.output_dir, call.env),
                  successful_meetings |-> SuccessfulMeetings(<<result>>),
                  failed_meetings |-> FailedMeetings(<<result>>)]
    /\ called' = TRUE
    /\ UNCHANGED <<pc, start_date, end_date, probe, fetch_log, input_file, meetings,
                   error, printed, call>>
    /\ UNCHANGED <<poolVars, outVars>>

NextExtract == CallExtract

SpecExtract == InitExtract /\ [][NextExtract]_vars

\* ---- extract_meeting_text invoked again for the same record ------------
MaxRuns == 2

\* What output_dir holds before the first invocation: nothing, the file of
\* another meeting, or also an older file of meeting 0.
OtherFile == [path |-> TextPath(output_dir, 7), text |-> <<"other">>]
StaleFile == [path |-> TextPath(output_dir, 0), text |-> <<"stale">>]
OutputDirs == { {}, {OtherFile}, {OtherFile, StaleFile} }

InitRerun ==
    /\ pc = "idle"
    /\ start_date = None /\ end_date = None
    /\ probe = NoProbe
    /\ fetch_log = << >>
    /\ input_file = Earlier
    /\ meetings = << >>
    /\ started = 0
    /\ running = {}
    /\ results = << >>
    /\ successful_meetings = << >>
    /\ failed_meetings = << >>
    /\ output_file = Earlier
    /\ failed_file = Earlier
    /\ txt_files \in OutputDirs
    /\ tmp_left = 0
    /\ writers = {}
    /\ error = ""
    /\ printed = ""
    /\ call \in {[meeting |-> m, output_dir |-> output_dir, env |-> e] :
                    m \in ExtractMeetings, e \in Envs}
    /\ ret = NoRet
    /\ called = FALSE

\* One more invocation for the same record; the page, the PDF and the file
\* system answer as before.  `results` collects what the invocations return.
Invoke ==
    /\ Len(results) < MaxRuns
    /\ LET r == extract_meeting_text(call.meeting, call.output_dir, call.env)
       IN /\ results' = Append(results,
                   process_meeting_wrapper(<<call.meeting, call.output_dir>>, call.env))
          /\ txt_files' = TxtAfter(txt_files, r.events)
          /\ tmp_left' = tmp_left + (IF TmpLeft(r.events) THEN 1 ELSE 0)
          /\ ret' = [NoRet EXCEPT !.r = r]
    /\ called' = TRUE
    /\ UNCHANGED <<pc, start_date, end_date, probe, fetch_log, input_file, meetings,
                   started, running, writers, error, printed, call>>
    /\ UNCHANGED outVars

NextRerun == Invoke

SpecRerun == InitRerun /\ [][NextRerun]_vars

\* ==================================================================
\* Properties
\* ==================================================================
IdsOf(records) == {records[i].id : i \in 1..Len(records)}

\* The run has split its results (step 5 is behind it).
AfterPartition ==
    \/ pc \in {"save", "summary", "done"}
    \/ pc = "raised" /\ error = "ZeroDivisionError"

\* The run has executed step 6.
AfterSave ==
    \/ pc \in {"summary", "done"}
    \/ pc = "raised" /\ error = "ZeroDivisionError"

\* C1: once a run has split its results, the ids of successful_meetings and
\* failed_meetings are disjoint, together they are the ids of the filtered
\* input, and no meeting appears twice, whatever the completion order and
\* the outcomes.
C1_ResultsPartitionInput ==
    AfterPartition =>
        /\ IdsOf(successful_meetings) \cap IdsOf(failed_meetings) = {}
        /\ IdsOf(successful_meetings) \cup IdsOf(failed_meetings) = IdsOf(meetings)
        /\ Len(successful_meetings) + Len(failed_meetings) = Len(meetings)

\* A finished run with one success and one failure, completed out of order.
C1_Witness ==
    /\ pc = "done"
    /\ Len(successful_meetings) = 1
    /\ Len(failed_meetings) = 1
    /\ results[1].meeting.id = 1

\* C2 (as claimed): when no probe returned 200, the run aborts with the
\* error message, never calls the fetcher, dispatches nothing and writes no
\* file.
C2_ProbeFailureAborts ==
    (pc # "probe" /\ ~probe.worked) =>
        /\ pc = "returned"
        /\ printed = "Could not find working API key format!"
        /\ fetch_log = << >>
        /\ started = 0
        /\ input_file = Earlier
        /\ output_file = Earlier
        /\ failed_file = Earlier
        /\ txt_files = {}

\* The candidates in the order the claim gives them.
C3_Candidates ==
    << <<"X-API-Key", API_KEY>>, <<"Api-Key", API_KEY>>, <<"API-Key", API_KEY>>,
       <<"X-API-KEY", API_KEY>>, <<"Authorization", "Bearer", API_KEY>>,
       <<"Authorization", API_KEY>>, <<"apikey", API_KEY>> >>

\* C3: the header candidates are probed in the listed order; the first one
\* answered with 200 is returned and is the last request sent; the
\* query-parameter probe is sent only after all seven failed, and last.
C3_ProbeOrder ==
    called =>
        LET working == {k \in 1..7 : call[k] = "200"}
        IN IF working # {}
           THEN LET first == CHOOSE k \in working : \A j \in working : k <= j
                IN /\ ret.headers = C3_Candidates[first]
                   /\ ret.requests =
                        [i \in 1..first |->
                            [params |-> <<"type=previous">>, headers |-> C3_Candidates[i]]]
           ELSE /\ ret.headers = None
                /\ ret.requests =
                     [i \in 1..8 |->
                        IF i <= 7
                        THEN [params |-> <<"type=previous">>, headers |-> C3_Candidates[i]]
                        ELSE [params |-> <<"type=previous", "apiKey">>, headers |-> None]]

\* The third candidate is the first to work, and later ones would work too.
C3_Witness ==
    /\ called
    /\ call[1] # "200" /\ call[2] # "200"
    /\ call[3] = "200" /\ call[4] = "200"
    /\ Len(ret.requests) = 3

\* C4: a failed extraction is a result (False, message, None) and never an
\* exception in the orchestrator; the pool never stops short of the other
\* meetings, and a run past step 5 has a result for every dispatched meeting.
C4_FailuresAreResults ==
    /\ error # "worker"
    /\ \A i \in 1..Len(results) :
          ~results[i].success =>
              /\ results[i].text_filename = None
              /\ results[i].message.text # ""
    /\ pc = "pool" =>
          \/ started < Len(meetings)
          \/ running # {}
          \/ Len(results) = Len(meetings)
    /\ AfterPartition =>
          /\ {results[i].meeting : i \in 1..Len(results)} = Range(meetings)
          /\ Len(results) = Len(meetings)
    /\ (pc = "returned") => started = 0

\* The result files are written although one extraction met an unexpected
\* exception, and the other meeting of the run was extracted.
C4_Witness ==
    /\ pc = "summary"
    /\ output_file.run = "this"
    /\ failed_file.run = "this"
    /\ \E i \in 1..Len(results) : results[i].message.text = "Unexpected error"
    /\ \E i \in 1..Len(results) : results[i].success

\* C5: with an empty or absent meetingUrl the result is a failure with no
\* filename, and no request was sent and no file touched; id 0 is not a
\* missing id.
C5_EmptyUrlFailsOffline ==
    called =>
        /\ call.meeting.meetingUrl = << >> =>
              /\ ~ret.r.success
              /\ ret.r.text_filename = None
              /\ ret.r.events = << >>
        /\ ("id" \in DOMAIN call.meeting /\ call.meeting.id = 0) =>
              /\ ret.r.message.text # "Missing meeting ID"
              /\ ret.r.message.meeting = <<"0">>

\* The record with id 0 and no URL has been extracted.
C5_Witness ==
    /\ called
    /\ "id" \in DOMAIN call.meeting
    /\ call.meeting.id = 0
    /\ call.meeting.meetingUrl = << >>
    /\ ret.r.message.text = "Empty or missing meetingUrl"

\* C6: after a failed fetch or a failed reload the run has returned, no
\* extractor was dispatched, and output_json, failed_json and the text files
\* are as they were.
C6_RunFailureNoOutput ==
    printed \in {"Failed to scrape meetings", "Error: File not found",
                 "Error: Invalid JSON"} =>
        /\ pc = "returned"
        /\ started = 0
        /\ running = {}
        /\ results = << >>
        /\ output_file = Earlier
        /\ failed_file = Earlier
        /\ txt_files = {}
        /\ writers = {}
        /\ tmp_left = 0

\* The dataset was fetched and saved, and its reload failed.
C6_Witness ==
    /\ pc = "returned"
    /\ printed = "Error: Invalid JSON"
    /\ input_file.run = "this"

\* C7: the filename is set exactly on success; the text file is opened only
\* when page and PDF answered 200, a link was found and a page has text, and
\* it is written on every success; a success copy has text_filename and no
\* error_message, a failure copy error_message and no text_filename.
C7_FilenameIffSuccess ==
    called =>
        LET r == ret.r
            env == call.env
        IN /\ (r.text_filename # None) <=> r.success
           /\ ({"txt.open", "txt.write"} \cap Ops(r.events) # {}) =>
                 /\ "id" \in DOMAIN call.meeting
                 /\ call.meeting.meetingUrl # << >>
                 /\ env.page = "200"
                 /\ env.href # << >>
                 /\ env.pdf = "200"
                 /\ \E i \in 1..Len(env.pages) : env.pages[i] # ""
           /\ r.success => "txt.write" \in Ops(r.events)
           /\ Len(ret.successful_meetings) = (IF r.success THEN 1 ELSE 0)
           /\ Len(ret.failed_meetings) = (IF r.success THEN 0 ELSE 1)
           /\ \A i \in 1..Len(ret.successful_meetings) :
                 /\ "text_filename" \in DOMAIN ret.successful_meetings[i]
                 /\ ret.successful_meetings[i].text_filename = r.text_filename
                 /\ "error_message" \notin DOMAIN ret.successful_meetings[i]
           /\ \A i \in 1..Len(ret.failed_meetings) :
                 /\ "error_message" \in DOMAIN ret.failed_meetings[i]
                 /\ "text_filename" \notin DOMAIN ret.failed_meetings[i]

\* A successful extraction, copied into the success collection.
C7_Witness ==
    /\ called
    /\ ret.r.success
    /\ Len(ret.successful_meetings) = 1
    /\ "txt.write" \in Ops(ret.r.events)

\* Days since a fixed origin, for comparing dates as numbers.
C8_Day(d) == (d[1] * 12 + d[2]) * 31 + d[3]

\* The meeting's eventDate is ISO text of a real date within the bounds given.
C8_InRange(m, s, e) ==
    /\ m.eventDate.kind = "iso"
    /\ m.eventDate.date[2] \in 1..12
    /\ m.eventDate.date[3] \in 1..DaysInMonth(m.eventDate.date[1], m.eventDate.date[2])
    /\ (s # None) => C8_Day(s) <= C8_Day(m.eventDate.date)
    /\ (e # None) => C8_Day(m.eventDate.date) <= C8_Day(e)

\* C8: with no bound the list is returned as is; otherwise exactly the
\* meetings whose eventDate parses and lies in [start_date, end_date], both
\* ends included, are kept, in their order.
C8_InclusiveFilter ==
    called =>
        IF call.start_date = None /\ call.end_date = None
        THEN ret = call.meetings
        ELSE /\ \A i \in 1..Len(ret) : C8_InRange(ret[i], call.start_date, call.end_date)
             /\ \A i \in 1..Len(call.meetings) :
                   C8_InRange(call.meetings[i], call.start_date, call.end_date)
                      => call.meetings[i] \in Range(ret)
             /\ \A i, j \in 1..Len(ret) : i < j => ret[i].id < ret[j].id
             /\ Range(ret) \subseteq Range(call.meetings)

\* Both bounds are 2026-01-01 and the meeting of that day is the only one
\* kept, the one of the day before being dropped.
C8_Witness ==
    /\ called
    /\ call.start_date = Jan01
    /\ call.end_date = Jan01
    /\ Len(call.meetings) = 2
    /\ call.meetings[1].eventDate = IsoDate(Dec31)
    /\ call.meetings[2].eventDate = IsoDate(Jan01)
    /\ ret = <<call.meetings[2]>>

\* C9: the meetings dispatched have pairwise distinct ids; every write of a
\* text file is by the task of that id; no path has two writers, and two
\* tasks running at once have different paths; a task runs once.
C9_DistinctOutputPaths ==
    /\ pc \in {"pool", "save", "summary", "done", "raised"} =>
          \A i, j \in 1..Len(meetings) : i # j => meetings[i].id # meetings[j].id
    /\ \A w \in writers :
          w.path = <<output_dir, "/", ToString(meetings[w.task].id), ".txt">>
    /\ \A v, w \in writers : v.path = w.path => v.task = w.task
    /\ \A t, u \in running :
          t # u => TextPath(output_dir, meetings[t].id) # TextPath(output_dir, meetings[u].id)
    /\ running \subseteq 1..started
    /\ pc = "pool" => Len(results) + Cardinality(running) = started

\* Both meetings of a run have written their text files.
C9_Witness ==
    /\ Cardinality(writers) = 2
    /\ Cardinality(txt_files) = 2

\* C10: after step 6 output_json holds exactly the success collection;
\* failed_json holds the failure collection if there is a failure and is
\* the earlier run's file otherwise.
C10_FailedFileOnlyIfFailures ==
    AfterSave =>
        /\ output_file = Written(successful_meetings)
        /\ successful_meetings = SuccessfulMeetings(results)
        /\ failed_file = IF Len(failed_meetings) > 0
                         THEN Written(failed_meetings)
                         ELSE Earlier

\* A finished run without failures: failed_json is still the earlier one.
C10_Witness ==
    /\ pc = "done"
    /\ Len(failed_meetings) = 0
    /\ Len(successful_meetings) > 0
    /\ failed_file = Earlier
    /\ output_file.run = "this"

\* An absolute URL: a scheme (in either case), "//" and a host.
C11_IsAbsolute(href) ==
    /\ Len(href) >= 4
    /\ href[1] \in {"http:", "https:", "HTTP:", "HTTPS:"}
    /\ href[2] = "/" /\ href[3] = "/"

\* The meeting URL without its last path segment and the "/" before it.
C11_Directory(url) ==
    LET slashes == {i \in 1..Len(url) : url[i] = "/"}
        last == CHOOSE i \in slashes : \A j \in slashes : j <= i
    IN SubSeq(url, 1, last - 1)

\* C11 (as claimed): the PDF request goes to the href itself if the href is
\* an absolute URL, to https://council.vancouver.ca + href if it starts with
\* "/", and otherwise to the meeting URL's directory + "/" + href; an href
\* that is not an absolute URL is never requested as it is.
C11_HrefResolution ==
    (called /\ Len(ret.r.events) >= 2) =>
        LET href == call.env.href
            pdf_url == ret.r.events[2].arg
        IN /\ ret.r.events[2].op = "GET"
           /\ pdf_url =
                IF C11_IsAbsolute(href) THEN href
                ELSE IF href[1] = "/"
                THEN <<"https:", "/", "/", "council.vancouver.ca">> \o href
                ELSE C11_Directory(call.meeting.meetingUrl) \o <<"/">> \o href
           /\ ~C11_IsAbsolute(href) => pdf_url # href

\* C12: an invocation that follows a successful one for the same record,
\* with the page and the PDF unchanged, returns the same success result and
\* leaves every file as it was: <id>.txt with the same text, no file added.
C12_RerunIdempotent ==
    [][(/\ Len(results) >= 1
        /\ results[Len(results)].success
        /\ Len(results') = Len(results) + 1)
       => /\ results'[Len(results')] = results[Len(results)]
          /\ txt_files' = txt_files
          /\ tmp_left' = tmp_left]_vars

\* Two successful invocations over an older <id>.txt, beside another file.
C12_Witness ==
    /\ Len(results) = 2
    /\ results[1].success
    /\ results[2].success
    /\ OtherFile \in txt_files
    /\ [path |-> TextPath(output_dir, 0), text |-> <<"minutes">>] \in txt_files

\* C13 (as claimed): a run that got past probing, fetch and reload never
\* ends with an exception, whatever the number of meetings the filter keeps;
\* a finished run has written output_json and printed the summary.
C13_RunCompletes ==
    /\ pc # "raised"
    /\ pc = "done" =>
          /\ printed = "SUMMARY"
          /\ output_file = Written(successful_meetings)
          /\ Len(results) = Len(meetings)

\* C14 (as claimed, for invocations in which os.unlink itself does not
\* fail): when extract_meeting_text has returned, the temporary PDF file it
\* created is gone, whether it returned success or a failure.
C14_NoTempFileLeft ==
    (called /\ call.env.unlink = "ok") =>
        ("tmp.create" \in Ops(ret.r.events) => "tmp.unlink" \in Ops(ret.r.events))

====
